---- MODULE Spec2Model ----
(***************************************************************************)
(* ren2svif: rewriting of a C/C++ fact graph into an architecture graph.   *)
(* The model follows src/main.py (the pipeline), src/transformations.py    *)
(* (the five passes) and src/helpers.py (the property helpers).            *)
(*                                                                         *)
(* Representation.  A Python dict is a function whose DOMAIN is its key    *)
(* set.  A list of new Node objects returned by a pass has unique ids (it  *)
(* is the value list of a dict keyed by id), so it is a function from id   *)
(* to [labels, properties].  A list of new Edge objects is a bag of        *)
(* [source, target, label, properties] records.  Ids, labels, property     *)
(* keys and property values are strings.                                   *)
(***************************************************************************)
EXTENDS Naturals, Sequences, FiniteSets, Bags, TLC

VARIABLES
    pc,                 \* position in main()
    args,               \* the --no-ops / --no-files / --no-folders flags
    original_graph,     \* [nodes: Seq of [id, labels, properties], edges: Seq of [source, target, label]]
    s_nodes, s_edges, s_map,            \* results of pass 1
    o_nodes, o_edges, o_map,            \* results of pass 2
    combined_map_1,
    f_nodes, f_edges, combo_map_2,      \* results of pass 3
    folder_nodes, folder_edges, combo_map_3,   \* results of pass 4
    extra_nest_edges,                   \* result of pass 5
    final_graph,        \* [nodes: id -> node, edges: bag] after clean_up
    assignments,        \* history: every (old id, new id) write to an id mapping so far
    created,            \* history: the id of every Node(...) constructed so far, as a bag
    var_func_to_files,  \* pass 3's per-entity file tracking, kept for inspection
    def_props, decl_props, merged,      \* merge_properties: inputs and result
    pp_props, pp_old_id, pp_result      \* parse_path_as_name: inputs and result

vars == << pc, args, original_graph, s_nodes, s_edges, s_map, o_nodes, o_edges, o_map,
           combined_map_1, f_nodes, f_edges, combo_map_2, folder_nodes, folder_edges,
           combo_map_3, extra_nest_edges, final_graph, assignments, created, var_func_to_files,
           def_props, decl_props, merged, pp_props, pp_old_id, pp_result >>

pipeline_vars == << pc, args, original_graph, s_nodes, s_edges, s_map, o_nodes, o_edges, o_map,
           combined_map_1, f_nodes, f_edges, combo_map_2, folder_nodes, folder_edges,
           combo_map_3, extra_nest_edges, final_graph, assignments, created, var_func_to_files >>

merge_vars == << def_props, decl_props, merged >>

path_vars == << pp_props, pp_old_id, pp_result >>

-----------------------------------------------------------------------------
(* Dicts, sequences and bags.                                              *)

EmptyDict == [k \in {} |-> ""]

\* d[k] = v
DictSet(d, k, v) == [x \in (DOMAIN d) \cup {k} |-> IF x = k THEN v ELSE d[x]]

\* d.pop(k) / del d[k]
DictDel(d, k) == [x \in (DOMAIN d) \ {k} |-> d[x]]

\* d.update(e): e's entries win
DictUpdate(d, e) == [x \in (DOMAIN d) \cup (DOMAIN e) |-> IF x \in DOMAIN e THEN e[x] ELSE d[x]]

\* d.get(k, dflt)
DictGet(d, k, dflt) == IF k \in DOMAIN d THEN d[k] ELSE dflt

\* Python's None, for mapping.get(old_id)
None == "<None>"

Range(s) == {s[i] : i \in DOMAIN s}

RECURSIVE Concat(_)
\* "".join(parts)
Concat(parts) == IF parts = << >> THEN "" ELSE Head(parts) \o Concat(Tail(parts))

OneEdge(e) == SetToBag({e})

RECURSIVE BagOfSeq(_)
\* a list of edges, order forgotten
BagOfSeq(s) == IF s = << >> THEN EmptyBag ELSE OneEdge(Head(s)) (+) BagOfSeq(Tail(s))

\* Edge(source, target, label, **props)
Edge(s, t, l, p) == [source |-> s, target |-> t, label |-> l, properties |-> p]

\* Node(id, *labels, **props), without its id (the key it is stored under)
Node(labels, props) == [labels |-> labels, properties |-> props]

RenaissanceProps == [k \in {"metaSrc"} |-> "renaissance"]

-----------------------------------------------------------------------------
(* helpers.py                                                              *)

rename_properties(props) ==
    LET p1 == IF "symbol" \in DOMAIN props
              THEN DictSet(DictDel(props, "symbol"), "simpleName", props["symbol"])
              ELSE props
        p2 == IF "name" \in DOMAIN p1
              THEN DictSet(DictDel(p1, "name"), "qualifiedName", p1["name"])
              ELSE p1
    IN  DictSet(p2, "metaSrc", "renaissance")

\* the update the other way round: the declaration's entries win
MergeWrong(dp, cp) == DictUpdate(dp, cp)

\* merged = dict(decl_props); merged.update(def_props)
MergeUpdate(dp, cp) == DictUpdate(cp, dp)

merge_properties(dp, cp) ==
    LET m  == MergeUpdate(dp, cp)
        m1 == IF "symbol" \in DOMAIN m
              THEN DictSet(DictDel(m, "symbol"), "simpleName", m["symbol"])
              ELSE m
        m2 == IF "name" \in DOMAIN m1
              THEN DictSet(DictDel(m1, "name"), "qualifiedName", m1["name"])
              ELSE m1
    IN  DictSet(m2, "metaSrc", "renaissance")

\* The characters a path is written with: two letters and the two separators.
PathAlphabet == {"a", "b", "/", "\\"}

MaxPathLen == 3

CharSeqs(n) == [1..n -> PathAlphabet]

AllCharSeqs == UNION {CharSeqs(n) : n \in 0..MaxPathLen}

PathStrings == {Concat(cs) : cs \in AllCharSeqs}

\* the characters of a string: the one sequence of characters that spells it
CharsTable == [s \in PathStrings |-> CHOOSE cs \in CharSeqs(Len(s)) : Concat(cs) = s]

Chars(s) == CharsTable[s]

\* path_val.replace("\\", "/")
ReplaceBackslash(cs) == [i \in DOMAIN cs |-> IF cs[i] = "\\" THEN "/" ELSE cs[i]]

\* the characters after the last "/" of cs: norm_path.split("/")[-1]
LastSegment(cs) ==
    LET seps == {i \in DOMAIN cs : cs[i] = "/"}
        from == IF seps = {} THEN 1
                ELSE 1 + (CHOOSE i \in seps : \A j \in seps : j <= i)
    IN  SubSeq(cs, from, Len(cs))

\* the last segment without the fallback to the whole path
LastPartNoFallback(norm) == Concat(LastSegment(norm))

\* last_part = norm_path.split("/")[-1] or norm_path
LastPart(norm) ==
    IF LastSegment(norm) # << >> THEN Concat(LastSegment(norm)) ELSE Concat(norm)

parse_path_as_name(props, old_id) ==
    LET base  == DictDel(DictDel(props, "name"), "symbol")
        named ==
            IF "name" \in DOMAIN props
            THEN LET norm_path == ReplaceBackslash(Chars(props["name"]))
                 IN  DictSet(DictSet(base, "qualifiedName", props["name"]),
                             "simpleName", LastPart(norm_path))
            ELSE IF "symbol" \in DOMAIN props /\ props["symbol"] # ""
                 THEN DictSet(DictSet(base, "simpleName", props["symbol"]),
                              "qualifiedName", props["symbol"])
                 ELSE LET sid == IF old_id # "" THEN old_id ELSE "unknown"
                      IN  DictSet(DictSet(base, "simpleName", sid), "qualifiedName", sid)
    IN  DictSet(named, "metaSrc", "renaissance")

-----------------------------------------------------------------------------
(* The graph module (imported, not part of the sources): the queries the   *)
(* passes use, as the specification describes them.                        *)

\* graph.nodes: id -> node
NodeIndex(g, id) == CHOOSE i \in DOMAIN g.nodes : g.nodes[i].id = id

NodeIdSet(g) == {g.nodes[i].id : i \in DOMAIN g.nodes}

GraphNode(g, id) == g.nodes[NodeIndex(g, id)]

\* graph.find_nodes(label=...): the nodes carrying the label, in graph order
find_nodes(g, label) == SelectSeq(g.nodes, LAMBDA n : label \in n.labels)

\* graph.find_edges(label=...): the edges with the label, in graph order
find_edges(g, label) == SelectSeq(g.edges, LAMBDA e : e.label = label)

IdsOf(nodeseq) == [i \in DOMAIN nodeseq |-> nodeseq[i].id]

\* node.targets(label): ids reached by one outgoing edge of the label, one per edge
targets(g, id, label) ==
    LET ids == NodeIdSet(g)
        es  == SelectSeq(g.edges,
                LAMBDA e : e.label = label /\ e.source = id /\ e.target \in ids)
    IN  [i \in DOMAIN es |-> es[i].target]

\* node.sources(label): ids that reach the node by one edge of the label
sources(g, id, label) ==
    LET ids == NodeIdSet(g)
        es  == SelectSeq(g.edges,
                LAMBDA e : e.label = label /\ e.target = id /\ e.source \in ids)
    IN  [i \in DOMAIN es |-> es[i].source]

RECURSIVE PathsFrom(_, _, _)
\* the (e1, e2) pairs of find_paths for the first k edges e1, e1-major
PathsFrom(firsts, seconds, k) ==
    IF k = 0 THEN << >>
    ELSE LET e1 == firsts[k]
             m  == SelectSeq(seconds, LAMBDA e2 : e1.target = e2.source)
         IN  PathsFrom(firsts, seconds, k - 1) \o [i \in DOMAIN m |-> << e1, m[i] >>]

\* graph.find_paths(label1, label2): all (e1, e2) with e1.target = e2.source
find_paths(g, label1, label2) ==
    PathsFrom(find_edges(g, label1), find_edges(g, label2), Len(find_edges(g, label1)))

-----------------------------------------------------------------------------
(* transformations.py, pass 1: collect_structures_and_variables            *)

\* all_decl_ids
AllDeclIds(g) ==
    Range(IdsOf(find_nodes(g, "CppDeclaration")))
        \cup Range(IdsOf(find_nodes(g, "CppForwardDeclaration")))

\* parent after initialisation; the CppAlias unions are commented out in the source
UnionFindParent(g) == [x \in AllDeclIds(g) |-> x]

RECURSIVE find(_, _)
find(parent, x) == IF parent[x] # x THEN find(parent, parent[x]) ELSE parent[x]

\* merged_props[rep]: with no union performed, the node's own properties
MergedProps(g, rep) == GraphNode(g, rep).properties

\* comp_members: rep -> members
CompMembers(g) ==
    LET parent == UnionFindParent(g)
        reps   == {find(parent, x) : x \in DOMAIN parent}
    IN  [r \in reps |-> {x \in DOMAIN parent : find(parent, x) = r}]

\* the nodes the classification loop visits: for n in cpp_decl_nodes
ClassifiedNodes(g) == find_nodes(g, "CppDeclaration")

\* the reps with group_has_contains[rep] (lines 88-92)
GroupsWithContains(g) ==
    LET parent == UnionFindParent(g)
    IN  {find(parent, n.id) : n \in
            {m \in Range(ClassifiedNodes(g)) : targets(g, m.id, "CppContains") # << >>}}

\* the reps with group_has_inherits[rep] (lines 93-95)
GroupsWithInherits(g) ==
    LET parent == UnionFindParent(g)
    IN  {find(parent, n.id) : n \in
            {m \in Range(ClassifiedNodes(g)) :
                \/ targets(g, m.id, "CppInherits") # << >>
                \/ sources(g, m.id, "CppInherits") # << >>}}

\* the reps classified Structure (line 110)
StructureGroups(g) == GroupsWithContains(g) \cup GroupsWithInherits(g)

\* node_id of the group of rep (lines 114 and 119)
GroupNodeId(structs, rep) == IF rep \in structs THEN "class" \o rep ELSE "variable" \o rep

\* new_nodes_dict after the node loop (lines 105-125)
Pass1InitialNodes(g, cm, structs) ==
    LET byRep == [r \in DOMAIN cm |->
                    LET props_renamed == rename_properties(MergedProps(g, r))
                    IN  IF r \in structs
                        THEN Node({"Structure"},
                                  DictSet(props_renamed, "kind", "class/struct/template"))
                        ELSE Node({"Variable"}, DictSet(props_renamed, "kind", "variable"))]
    IN  [nid \in {GroupNodeId(structs, r) : r \in DOMAIN cm} |->
            byRep[CHOOSE r \in DOMAIN cm : GroupNodeId(structs, r) = nid]]

RECURSIVE Pass1Made(_, _)
\* the ids of the nodes the node loop constructs, one Node(node_id, ...) per group
\* (line 121)
Pass1Made(structs, reps) ==
    IF reps = {} THEN EmptyBag
    ELSE LET r == CHOOSE x \in reps : TRUE
         IN  SetToBag({GroupNodeId(structs, r)}) (+) Pass1Made(structs, reps \ {r})

\* id_mapping (lines 124-125)
Pass1Mapping(cm, structs) ==
    [m \in UNION {cm[r] : r \in DOMAIN cm} |->
        GroupNodeId(structs, CHOOSE r \in DOMAIN cm : m \in cm[r])]

\* child_new_node.properties["kind"] = "field"
MarkField(nodes, child) ==
    [nodes EXCEPT ![child].properties = DictSet(@, "kind", "field")]

\* parent_new_node.labels.add("Container")
AddLabel(nodes, id, label) == [nodes EXCEPT ![id].labels = @ \cup {label}]

RECURSIVE Pass1Children(_, _, _, _, _)
\* the inner loop over old_decl_node.targets("CppContains") (lines 139-156)
Pass1Children(st, mapping, parent_new_id, children, i) ==
    IF i > Len(children) THEN st
    ELSE LET child == children[i]
         IN  IF child \notin DOMAIN mapping
             THEN Pass1Children(st, mapping, parent_new_id, children, i + 1)
             ELSE LET child_new_id == mapping[child]
                      lbls == st.nodes[child_new_id].labels
                      st2  == IF "Variable" \in lbls
                              THEN [nodes |-> MarkField(st.nodes, child_new_id),
                                    edges |-> st.edges (+) OneEdge(
                                        Edge(parent_new_id, child_new_id, "hasVariable", RenaissanceProps))]
                              ELSE IF "Structure" \in lbls
                              THEN [nodes |-> AddLabel(st.nodes, parent_new_id, "Container"),
                                    edges |-> st.edges (+) OneEdge(
                                        Edge(parent_new_id, child_new_id, "contains", RenaissanceProps))]
                              ELSE st
                  IN  Pass1Children(st2, mapping, parent_new_id, children, i + 1)

RECURSIVE Pass1Decls(_, _, _, _, _)
\* the loop over old_declarations (lines 131-156)
Pass1Decls(g, st, mapping, decls, i) ==
    IF i > Len(decls) THEN st
    ELSE LET parent_new_id == mapping[decls[i].id]
         IN  IF "Structure" \notin st.nodes[parent_new_id].labels
             THEN Pass1Decls(g, st, mapping, decls, i + 1)
             ELSE Pass1Decls(g,
                     Pass1Children(st, mapping, parent_new_id,
                                   targets(g, decls[i].id, "CppContains"), 1),
                     mapping, decls, i + 1)

\* the specializes edges (lines 159-170)
Pass1Specializes(g, nodes, mapping) ==
    LET inh == find_edges(g, "CppInherits")
        ok  == SelectSeq(inh, LAMBDA ed :
                  /\ ed.source \in DOMAIN mapping
                  /\ ed.target \in DOMAIN mapping
                  /\ "Structure" \in nodes[mapping[ed.source]].labels
                  /\ "Structure" \in nodes[mapping[ed.target]].labels)
    IN  BagOfSeq([i \in DOMAIN ok |->
            Edge(mapping[ok[i].source], mapping[ok[i].target], "specializes", RenaissanceProps)])

\* (new_nodes_list, new_edges_list, id_mapping)
collect_structures_and_variables(g) ==
    LET cm      == CompMembers(g)
        structs == StructureGroups(g)
        mapping == Pass1Mapping(cm, structs)
        st == Pass1Decls(g, [nodes |-> Pass1InitialNodes(g, cm, structs), edges |-> EmptyBag],
                         mapping, find_nodes(g, "CppDeclaration"), 1)
    IN  [nodes   |-> st.nodes,
         edges   |-> st.edges (+) Pass1Specializes(g, st.nodes, mapping),
         mapping |-> mapping,
         made    |-> Pass1Made(structs, DOMAIN cm)]

-----------------------------------------------------------------------------
(* transformations.py, pass 2: collect_operations_and_macros               *)

\* decl_for_defn[dfn_id]: the declarations dfn_id implements, in edge order
DeclForDefn(g, dfn_id) ==
    LET defs  == Range(IdsOf(find_nodes(g, "CppFunctionDefinition")))
        decls == Range(IdsOf(find_nodes(g, "CppFunctionDeclaration")))
        es    == SelectSeq(find_edges(g, "CppImplements"),
                    LAMBDA e : e.source = dfn_id /\ e.source \in defs /\ e.target \in decls)
    IN  [i \in DOMAIN es |-> es[i].target]

\* new_op_id = f"function{def_id}_{dcl_id}"
MergedOpId(def_id, dcl_id) == "function" \o def_id \o "_" \o dcl_id

RECURSIVE MergeDecls(_, _, _, _, _)
\* for dcl_id in matched_decls (lines 232-242)
MergeDecls(g, st, def_id, matched, j) ==
    IF j > Len(matched) THEN st
    ELSE LET dcl_id == matched[j]
         IN  IF dcl_id \in st.handled
             THEN MergeDecls(g, st, def_id, matched, j + 1)
             ELSE LET new_op_id == MergedOpId(def_id, dcl_id)
                      props == merge_properties(GraphNode(g, def_id).properties,
                                                GraphNode(g, dcl_id).properties)
                      st2 == [nodes   |-> DictSet(st.nodes, new_op_id, Node({"Operation"}, props)),
                              handled |-> st.handled \cup {def_id, dcl_id},
                              mapping |-> DictSet(DictSet(st.mapping, def_id, new_op_id),
                                                  dcl_id, new_op_id),
                              log     |-> st.log \cup {<< def_id, new_op_id >>,
                                                       << dcl_id, new_op_id >>},
                              made    |-> st.made (+) SetToBag({new_op_id})]
                  IN  MergeDecls(g, st2, def_id, matched, j + 1)

RECURSIVE MergeDefs(_, _, _, _)
\* the merge pass: for def_id, def_node in defn_by_id.items() (lines 226-242)
MergeDefs(g, st, defs, i) ==
    IF i > Len(defs) THEN st
    ELSE IF defs[i] \in st.handled
         THEN MergeDefs(g, st, defs, i + 1)
         ELSE MergeDefs(g, MergeDecls(g, st, defs[i], DeclForDefn(g, defs[i]), 1), defs, i + 1)

RECURSIVE Leftover(_, _, _, _, _)
\* leftover definitions / declarations => Operation (lines 245-262)
Leftover(g, st, ids, prefix, i) ==
    IF i > Len(ids) THEN st
    ELSE IF ids[i] \in st.handled
         THEN Leftover(g, st, ids, prefix, i + 1)
         ELSE LET new_id == prefix \o ids[i]
                  props  == rename_properties(GraphNode(g, ids[i]).properties)
                  st2 == [nodes   |-> DictSet(st.nodes, new_id, Node({"Operation"}, props)),
                          handled |-> st.handled \cup {ids[i]},
                          mapping |-> DictSet(st.mapping, ids[i], new_id),
                          log     |-> st.log \cup {<< ids[i], new_id >>},
                          made    |-> st.made (+) SetToBag({new_id})]
              IN  Leftover(g, st2, ids, prefix, i + 1)

RECURSIVE Macros(_, _, _, _)
\* macros => Script (lines 265-272)
Macros(g, st, ids, i) ==
    IF i > Len(ids) THEN st
    ELSE IF ids[i] \in DOMAIN st.mapping
         THEN Macros(g, st, ids, i + 1)
         ELSE LET script_id == "macro" \o ids[i]
                  props == DictSet(rename_properties(GraphNode(g, ids[i]).properties),
                                   "kind", "macro")
                  st2 == [nodes   |-> DictSet(st.nodes, script_id, Node({"Script"}, props)),
                          handled |-> st.handled,
                          mapping |-> DictSet(st.mapping, ids[i], script_id),
                          log     |-> st.log \cup {<< ids[i], script_id >>},
                          made    |-> st.made (+) SetToBag({script_id})]
              IN  Macros(g, st2, ids, i + 1)

\* contains_map[old_id]: the sources of the CppContains edges into old_id
ContainsParents(g, old_id) ==
    LET es == SelectSeq(find_edges(g, "CppContains"), LAMBDA e : e.target = old_id)
    IN  [i \in DOMAIN es |-> es[i].source]

RECURSIVE Pass2Parents(_, _, _, _, _)
\* for p in parents (lines 291-297)
Pass2Parents(st, structure_mapping, new_id, parents, k) ==
    IF k > Len(parents) THEN st
    ELSE IF parents[k] \notin DOMAIN structure_mapping
         THEN Pass2Parents(st, structure_mapping, new_id, parents, k + 1)
         ELSE LET e_hs == Edge(structure_mapping[parents[k]], new_id, "hasScript", EmptyDict)
                  nodes2 == IF "Operation" \in st.nodes[new_id].labels
                            THEN [st.nodes EXCEPT ![new_id].properties =
                                        DictSet(@, "kind", "method")]
                            ELSE st.nodes
              IN  Pass2Parents([nodes |-> nodes2, edges |-> st.edges (+) OneEdge(e_hs)],
                               structure_mapping, new_id, parents, k + 1)

RECURSIVE Pass2Containment(_, _, _, _, _, _)
\* for old_id in all_func_ids (lines 281-303)
Pass2Containment(g, st, structure_mapping, mapping, all_func_ids, i) ==
    IF i > Len(all_func_ids) THEN st
    ELSE LET old_id == all_func_ids[i]
             new_id == DictGet(mapping, old_id, None)
         IN  IF new_id = None \/ new_id = "" \/ new_id \notin DOMAIN st.nodes
             THEN Pass2Containment(g, st, structure_mapping, mapping, all_func_ids, i + 1)
             ELSE LET st2 == Pass2Parents(st, structure_mapping, new_id,
                                          ContainsParents(g, old_id), 1)
                      nodes3 ==
                          IF /\ "Operation" \in st2.nodes[new_id].labels
                             /\ DictGet(st2.nodes[new_id].properties, "kind", None) # "method"
                          THEN [st2.nodes EXCEPT ![new_id].properties =
                                    DictSet(@, "kind", "function")]
                          ELSE st2.nodes
                  IN  Pass2Containment(g, [nodes |-> nodes3, edges |-> st2.edges],
                                       structure_mapping, mapping, all_func_ids, i + 1)

\* the test left out: every pair is kept
InvokeKeepsSelfLoops(new_src, new_tgt) == TRUE

\* if new_src != new_tgt (line 319)
InvokeAllowed(new_src, new_tgt) == new_src # new_tgt

\* invoke_pairs (lines 306-320)
InvokePairs(g, mapping) ==
    LET calls == Range(find_edges(g, "CppCalls"))
    IN  {<< mapping[e.source], mapping[e.target] >> :
            e \in {c \in calls : /\ c.source \in DOMAIN mapping
                                 /\ c.target \in DOMAIN mapping
                                 /\ InvokeAllowed(mapping[c.source], mapping[c.target])}}

\* for (s, t) in invoke_pairs: one Edge each (lines 322-324)
InvokeEdges(g, mapping) ==
    SetToBag({Edge(p[1], p[2], "invoke", EmptyDict) : p \in InvokePairs(g, mapping)})

\* (new_nodes_list, new_edges_list, function_mapping), and the mapping writes made
collect_operations_and_macros(g, structure_mapping) ==
    LET defs   == IdsOf(find_nodes(g, "CppFunctionDefinition"))
        decls  == IdsOf(find_nodes(g, "CppFunctionDeclaration"))
        macros == IdsOf(find_nodes(g, "CppMacroDefinition"))
        st0 == [nodes |-> EmptyDict, handled |-> {}, mapping |-> EmptyDict, log |-> {},
                made |-> EmptyBag]
        st1 == MergeDefs(g, st0, defs, 1)
        st2 == Leftover(g, st1, defs, "funcdef", 1)
        st3 == Leftover(g, st2, decls, "funcdecl", 1)
        st4 == Macros(g, st3, macros, 1)
        c   == Pass2Containment(g, [nodes |-> st4.nodes, edges |-> EmptyBag],
                                structure_mapping, st4.mapping, defs \o decls \o macros, 1)
    IN  [nodes   |-> c.nodes,
         edges   |-> c.edges (+) InvokeEdges(g, st4.mapping),
         mapping |-> st4.mapping,
         log     |-> st4.log,
         made    |-> st4.made]

-----------------------------------------------------------------------------
(* transformations.py, pass 3: collect_files_and_associations              *)

\* {nd.id: nd for nd in list1 + list2}: on an id clash the later list's node wins
NodesById(first, later) == DictUpdate(first, later)

RECURSIVE FileNodes(_, _, _, _, _)
\* one of the three loops over sfiles / hfiles / ofiles (lines 363-385)
FileNodes(g, st, files, kind, i) ==
    IF i > Len(files) THEN st
    ELSE LET old_node == files[i]
             props  == DictSet(parse_path_as_name(old_node.properties, old_node.id),
                               "kind", kind)
             new_id == "file" \o old_node.id
         IN  FileNodes(g,
                 [nodes   |-> DictSet(st.nodes, new_id, Node({"Structure"}, props)),
                  mapping |-> DictSet(st.mapping, old_node.id, new_id),
                  log     |-> st.log \cup {<< old_node.id, new_id >>},
                  made    |-> st.made (+) SetToBag({new_id})],
                 files, kind, i + 1)

\* get_new_node_labels(old_id) (lines 391-400)
get_new_node_labels(old_id, combined_mapping, new_file_nodes_dict, new_nodes_dict) ==
    LET nid == DictGet(combined_mapping, old_id, None)
    IN  IF nid = None \/ nid = "" THEN {}
        ELSE IF nid \in DOMAIN new_file_nodes_dict THEN new_file_nodes_dict[nid].labels
        ELSE IF nid \in DOMAIN new_nodes_dict THEN new_nodes_dict[nid].labels
        ELSE {}

\* the edge (if any) and the tracking entry (if any) one Source edge gives, with
\* `main` its non-file end and `file` its file end (lines 415-430 and 433-447)
SourceEdgeBranch(main_old, file_old, main_id, file_id, labels) ==
    IF "Variable" \in labels
    THEN [edges |-> OneEdge(Edge(file_id, main_id, "hasVariable", EmptyDict)),
          track |-> {<< main_old, file_old >>}]
    ELSE IF {"Operation", "Script"} \cap labels # {}
    THEN [edges |-> OneEdge(Edge(file_id, main_id, "hasScript", EmptyDict)),
          track |-> {<< main_old, file_old >>}]
    ELSE IF "Structure" \in labels
    THEN [edges |-> OneEdge(Edge(main_id, file_id, "association", EmptyDict)),
          track |-> {}]
    ELSE [edges |-> EmptyBag, track |-> {}]

\* as SourceEdgeStep, but only an edge from the entity to the file is handled
SourceEdgeStepOneWay(e, combined_mapping, new_file_nodes_dict, new_nodes_dict) ==
    LET new_s == DictGet(combined_mapping, e.source, None)
        new_t == DictGet(combined_mapping, e.target, None)
        s_is_file == new_s \in DOMAIN new_file_nodes_dict
        t_is_file == new_t \in DOMAIN new_file_nodes_dict
        s_labels == get_new_node_labels(e.source, combined_mapping,
                                        new_file_nodes_dict, new_nodes_dict)
    IN  IF (~s_is_file) /\ t_is_file /\ new_s # None /\ new_s # ""
        THEN SourceEdgeBranch(e.source, e.target, new_s, new_t, s_labels)
        ELSE [edges |-> EmptyBag, track |-> {}]

\* the body of the loop over source_edges, for one edge (lines 402-447)
SourceEdgeStep(e, combined_mapping, new_file_nodes_dict, new_nodes_dict) ==
    LET new_s == DictGet(combined_mapping, e.source, None)
        new_t == DictGet(combined_mapping, e.target, None)
        s_is_file == new_s \in DOMAIN new_file_nodes_dict
        t_is_file == new_t \in DOMAIN new_file_nodes_dict
        s_labels == get_new_node_labels(e.source, combined_mapping,
                                        new_file_nodes_dict, new_nodes_dict)
        t_labels == get_new_node_labels(e.target, combined_mapping,
                                        new_file_nodes_dict, new_nodes_dict)
    IN  IF (~s_is_file) /\ t_is_file /\ new_s # None /\ new_s # ""
        THEN SourceEdgeBranch(e.source, e.target, new_s, new_t, s_labels)
        ELSE IF s_is_file /\ (~t_is_file) /\ new_t # None /\ new_t # ""
        THEN SourceEdgeBranch(e.target, e.source, new_t, new_s, t_labels)
        ELSE [edges |-> EmptyBag, track |-> {}]

RECURSIVE SourceEdges(_, _, _, _, _)
\* for e in source_edges: the edges emitted and var_func_to_files as (entity, file) pairs
SourceEdges(es, combined_mapping, new_file_nodes_dict, new_nodes_dict, i) ==
    IF i > Len(es) THEN [edges |-> EmptyBag, track |-> {}]
    ELSE LET one  == SourceEdgeStep(es[i], combined_mapping, new_file_nodes_dict, new_nodes_dict)
             rest == SourceEdges(es, combined_mapping, new_file_nodes_dict, new_nodes_dict, i + 1)
         IN  [edges |-> one.edges (+) rest.edges, track |-> one.track \cup rest.track]

\* var_func_to_files as a dict: old entity id -> set of old file ids
TrackDict(track) ==
    [old_vf \in {p[1] : p \in track} |-> {p[2] : p \in {q \in track : q[1] = old_vf}}]

\* the new file ids of the given kind among file_ids (lines 451-459)
FilesOfKind(file_ids, kind, combined_mapping, new_file_nodes_dict) ==
    {combined_mapping[fid] : fid \in
        {f \in file_ids :
            /\ f \in DOMAIN combined_mapping
            /\ combined_mapping[f] \in DOMAIN new_file_nodes_dict
            /\ DictGet(new_file_nodes_dict[combined_mapping[f]].properties, "kind", "") = kind}}

RECURSIVE SumBags(_, _)
SumBags(f, keys) ==
    IF keys = {} THEN EmptyBag
    ELSE LET k == CHOOSE x \in keys : TRUE
         IN  f[k] (+) SumBags(f, keys \ {k})

\* association(sourceFile, headerFile) edges, per key of var_func_to_files (lines 450-463)
PairingEdges(vff, combined_mapping, new_file_nodes_dict) ==
    SumBags([old_vf \in DOMAIN vff |->
                SetToBag({Edge(sf, hf, "association", EmptyDict) :
                    sf \in FilesOfKind(vff[old_vf], "source file",
                                       combined_mapping, new_file_nodes_dict),
                    hf \in FilesOfKind(vff[old_vf], "header file",
                                       combined_mapping, new_file_nodes_dict)})],
            DOMAIN vff)

\* CppUses => uses (lines 466-474)
UsesEdges(g, combined_mapping, new_file_nodes_dict) ==
    LET ok == SelectSeq(find_edges(g, "CppUses"), LAMBDA ee :
                /\ DictGet(combined_mapping, ee.source, None) \in DOMAIN new_file_nodes_dict
                /\ DictGet(combined_mapping, ee.target, None) \notin {None, ""})
    IN  BagOfSeq([i \in DOMAIN ok |->
            Edge(combined_mapping[ok[i].source], combined_mapping[ok[i].target],
                 "uses", EmptyDict)])

\* (new_file_nodes_list, new_edges_list, combined_mapping), the mapping writes made
\* and var_func_to_files
collect_files_and_associations(g, existing_mapping, new_nodes_dict) ==
    LET st0 == [nodes |-> EmptyDict, mapping |-> existing_mapping, log |-> {},
                made |-> EmptyBag]
        st1 == FileNodes(g, st0, find_nodes(g, "SourceFile"), "source file", 1)
        st2 == FileNodes(g, st1, find_nodes(g, "HeaderFile"), "header file", 1)
        st3 == FileNodes(g, st2, find_nodes(g, "OtherFile"), "other file", 1)
        src == SourceEdges(find_edges(g, "Source"), st3.mapping, st3.nodes, new_nodes_dict, 1)
        vff == TrackDict(src.track)
    IN  [nodes   |-> st3.nodes,
         edges   |-> src.edges (+) PairingEdges(vff, st3.mapping, st3.nodes)
                        (+) UsesEdges(g, st3.mapping, st3.nodes),
         mapping |-> st3.mapping,
         log     |-> st3.log,
         made    |-> st3.made,
         vff     |-> vff]

-----------------------------------------------------------------------------
(* helpers.py: normalize_label_camelcase, on the characters of a label     *)

\* digits, upper-case and lower-case letters in code-point order
LabelAlphabet ==
    << "0", "1", "2", "3", "4", "5", "6", "7", "8", "9", "A", "B", "C", "D", "E", "F", "G", "H", "I", "J", "K", "L", "M", "N", "O", "P", "Q", "R", "S", "T", "U", "V", "W", "X", "Y", "Z", "a", "b", "c", "d", "e", "f", "g", "h", "i", "j", "k", "l", "m", "n", "o", "p", "q", "r", "s", "t", "u", "v", "w", "x", "y", "z" >>

CharRank(c) == CHOOSE i \in DOMAIN LabelAlphabet : LabelAlphabet[i] = c

IsUpper(c) == \E i \in 11..36 : LabelAlphabet[i] = c

IsLowerOrDigit(c) == \E i \in (1..10) \cup (37..62) : LabelAlphabet[i] = c

\* c.lower()
LowerChar(c) == IF IsUpper(c) THEN LabelAlphabet[CharRank(c) + 26] ELSE c

\* the labels the model's graphs draw from, spelled out; the last is the empty
\* label (convert.py takes a node's label from its labelV attribute as it is)
SpelledLabels ==
    { << "C", "p", "p", "D", "e", "c", "l", "a", "r", "a", "t", "i", "o", "n" >>,
      << "C", "p", "p", "F", "o", "r", "w", "a", "r", "d", "D", "e", "c", "l", "a", "r", "a", "t", "i", "o", "n" >>,
      << "C", "p", "p", "F", "u", "n", "c", "t", "i", "o", "n", "D", "e", "c", "l", "a", "r", "a", "t", "i", "o", "n" >>,
      << "C", "p", "p", "F", "u", "n", "c", "t", "i", "o", "n", "D", "e", "f", "i", "n", "i", "t", "i", "o", "n" >>,
      << "C", "p", "p", "M", "a", "c", "r", "o", "D", "e", "f", "i", "n", "i", "t", "i", "o", "n" >>,
      << "S", "o", "u", "r", "c", "e", "F", "i", "l", "e" >>,
      << "H", "e", "a", "d", "e", "r", "F", "i", "l", "e" >>,
      << "O", "t", "h", "e", "r", "F", "i", "l", "e" >>,
      << "F", "o", "l", "d", "e", "r" >>,
      << "P", "r", "o", "j", "e", "c", "t" >>,
      << >> }

LabelUniverse == {Concat(cs) : cs \in SpelledLabels}

LabelChars(lbl) == CHOOSE cs \in SpelledLabels : Concat(cs) = lbl

\* re.sub(r'([a-z0-9])([A-Z])', r'\1 \2', lbl).lower()
NormalizeChars(cs) ==
    Concat([i \in DOMAIN cs |->
        IF i > 1 /\ IsLowerOrDigit(cs[i - 1]) /\ IsUpper(cs[i])
        THEN " " \o LowerChar(cs[i])
        ELSE LowerChar(cs[i])])

NormalizedLabel == [lbl \in LabelUniverse |-> NormalizeChars(LabelChars(lbl))]

normalize_label_camelcase(lbl) == NormalizedLabel[lbl]

RECURSIVE CharsLess(_, _)
\* Python's string order, on characters
CharsLess(a, b) ==
    IF a = << >> THEN b # << >>
    ELSE IF b = << >> THEN FALSE
    ELSE IF Head(a) = Head(b) THEN CharsLess(Tail(a), Tail(b))
    ELSE CharRank(Head(a)) < CharRank(Head(b))

LabelLess == [a \in LabelUniverse, b \in LabelUniverse |-> CharsLess(LabelChars(a), LabelChars(b))]

\* sorted(labels)[0]
FirstLabel(labels) == CHOOSE l \in labels : \A m \in labels \ {l} : LabelLess[l, m]

-----------------------------------------------------------------------------
(* transformations.py, pass 4: invert_parent_folder_edges                  *)

\* as ensure_mapped_node_folder_or_structure, without the early return for an id
\* that is already in the mapping
EnsureAlwaysCreates(old_node, st) ==
    LET props  == parse_path_as_name(old_node.properties, old_node.id)
        folder == "Folder" \in old_node.labels
        new_id == IF folder THEN "folder" \o old_node.id ELSE "auto" \o old_node.id
        node   == IF folder
                  THEN Node({"Container"}, DictSet(props, "kind", "folder"))
                  ELSE Node({"Structure"},
                            DictSet(props, "kind",
                                    normalize_label_camelcase(FirstLabel(old_node.labels))))
    IN  [st |-> [nodes   |-> DictSet(st.nodes, new_id, node),
                 edges   |-> st.edges,
                 mapping |-> DictSet(st.mapping, old_node.id, new_id),
                 log     |-> st.log \cup {<< old_node.id, new_id >>},
                 made    |-> st.made (+) SetToBag({new_id})],
         id |-> new_id]

\* ensure_mapped_node_folder_or_structure: the state after the call and the id returned
ensure_mapped_node_folder_or_structure(old_node, st) ==
    IF old_node.id \in DOMAIN st.mapping
    THEN [st |-> st, id |-> st.mapping[old_node.id]]
    ELSE LET props  == parse_path_as_name(old_node.properties, old_node.id)
             folder == "Folder" \in old_node.labels
             new_id == IF folder THEN "folder" \o old_node.id ELSE "auto" \o old_node.id
             node   == IF folder
                       THEN Node({"Container"}, DictSet(props, "kind", "folder"))
                       ELSE Node({"Structure"},
                                 DictSet(props, "kind",
                                         normalize_label_camelcase(FirstLabel(old_node.labels))))
         IN  [st |-> [nodes   |-> DictSet(st.nodes, new_id, node),
                      edges   |-> st.edges,
                      mapping |-> DictSet(st.mapping, old_node.id, new_id),
                      log     |-> st.log \cup {<< old_node.id, new_id >>},
                      made    |-> st.made (+) SetToBag({new_id})],
              id |-> new_id]

RECURSIVE ParentFolderEdgesNotInverted(_, _, _, _)
\* as ParentFolderEdges, but the contains edge keeps the direction of the
\* ParentFolder edge
ParentFolderEdgesNotInverted(g, st, es, i) ==
    IF i > Len(es) THEN st
    ELSE IF es[i].source \notin NodeIdSet(g) \/ es[i].target \notin NodeIdSet(g)
         THEN ParentFolderEdgesNotInverted(g, st, es, i + 1)
         ELSE LET a == ensure_mapped_node_folder_or_structure(GraphNode(g, es[i].source), st)
                  b == ensure_mapped_node_folder_or_structure(GraphNode(g, es[i].target), a.st)
                  e_contains == Edge(a.id, b.id, "contains", EmptyDict)
              IN  ParentFolderEdgesNotInverted(g,
                      [b.st EXCEPT !.edges = @ (+) OneEdge(e_contains)], es, i + 1)

RECURSIVE ParentFolderEdges(_, _, _, _)
\* for e in pfolder_edges (lines 500-515)
ParentFolderEdges(g, st, es, i) ==
    IF i > Len(es) THEN st
    ELSE IF es[i].source \notin NodeIdSet(g) \/ es[i].target \notin NodeIdSet(g)
         THEN ParentFolderEdges(g, st, es, i + 1)
         ELSE LET a == ensure_mapped_node_folder_or_structure(GraphNode(g, es[i].source), st)
                  b == ensure_mapped_node_folder_or_structure(GraphNode(g, es[i].target), a.st)
                  e_contains == Edge(b.id, a.id, "contains", EmptyDict)
              IN  ParentFolderEdges(g, [b.st EXCEPT !.edges = @ (+) OneEdge(e_contains)],
                                    es, i + 1)

\* (new_nodes_list, new_edges_list, combined_mapping) and the mapping writes made
invert_parent_folder_edges(g, existing_mapping) ==
    ParentFolderEdges(g,
        [nodes |-> EmptyDict, edges |-> EmptyBag, mapping |-> existing_mapping, log |-> {},
         made |-> EmptyBag],
        find_edges(g, "ParentFolder"), 1)

-----------------------------------------------------------------------------
(* transformations.py, pass 5: link_source_parentfolder_structures         *)

\* the body of the loop over paths, for one path (lines 584-611)
LinkPath(st, existing_mapping, path) ==
    LET old_e == path[1].source
        old_f == path[1].target
        old_d == path[2].target
    IN  IF \/ old_e \notin DOMAIN existing_mapping
           \/ old_f \notin DOMAIN existing_mapping
           \/ old_d \notin DOMAIN existing_mapping
        THEN st
        ELSE LET new_e == existing_mapping[old_e]
                 new_f == existing_mapping[old_f]
                 new_d == existing_mapping[old_d]
                 has(id) == id \in DOMAIN st.nodes
                 st1 == IF /\ has(new_d) /\ has(new_e)
                           /\ "Container" \in st.nodes[new_d].labels
                           /\ {"Container", "Structure"} \cap st.nodes[new_e].labels # {}
                        THEN [st EXCEPT !.edges = @ (+) OneEdge(
                                    Edge(new_d, new_e, "contains", EmptyDict))]
                        ELSE st
             IN  IF /\ has(new_f) /\ has(new_e)
                    /\ "Structure" \in st1.nodes[new_f].labels
                    /\ "Structure" \in st1.nodes[new_e].labels
                 THEN [nodes |-> AddLabel(st1.nodes, new_f, "Container"),
                       edges |-> st1.edges (+) OneEdge(
                                    Edge(new_f, new_e, "contains", EmptyDict))]
                 ELSE st1

RECURSIVE LinkPaths(_, _, _, _)
LinkPaths(st, existing_mapping, paths, i) ==
    IF i > Len(paths) THEN st
    ELSE LinkPaths(LinkPath(st, existing_mapping, paths[i]), existing_mapping, paths, i + 1)

\* the new edges, and new_nodes_dict with the labels the pass added to its nodes
link_source_parentfolder_structures(g, existing_mapping, new_nodes_dict) ==
    LinkPaths([nodes |-> new_nodes_dict, edges |-> EmptyBag], existing_mapping,
              find_paths(g, "Source", "ParentFolder"), 1)

-----------------------------------------------------------------------------
(* The graph module: clean_up, as the specification describes it.          *)

Triple(e) == << e.source, e.target, e.label >>

\* drop the edges with an endpoint that is no node; of the edges with one
\* (source, target, label) keep one, the first of the list (edge_bags: the
\* passes' edge lists in the order main concatenates them)
clean_up(nodes, edge_bags) ==
    LET keep(k) == {e \in BagToSet(edge_bags[k]) :
                        /\ e.source \in DOMAIN nodes
                        /\ e.target \in DOMAIN nodes
                        /\ \A j \in 1..(k - 1) :
                              \A d \in BagToSet(edge_bags[j]) : Triple(d) # Triple(e)}
    IN  [nodes |-> nodes,
         edges |-> SetToBag(UNION {keep(k) : k \in DOMAIN edge_bags})]

-----------------------------------------------------------------------------
(* main.py: the pipeline                                                   *)

MapLog(m) == {<< k, m[k] >> : k \in DOMAIN m}

\* Step A (lines 97-99)
StepA ==
    /\ pc = "step_a"
    /\ \E r \in {collect_structures_and_variables(original_graph)} :
           /\ s_nodes' = r.nodes
           /\ s_edges' = r.edges
           /\ s_map' = r.mapping
           /\ assignments' = assignments \cup MapLog(r.mapping)
           /\ created' = created (+) r.made
    /\ pc' = "step_b"
    /\ UNCHANGED << args, original_graph, o_nodes, o_edges, o_map, combined_map_1,
                    f_nodes, f_edges, combo_map_2, folder_nodes, folder_edges, combo_map_3,
                    extra_nest_edges, final_graph, var_func_to_files,
                    merge_vars, path_vars >>

\* Step B and the merge of the two mappings (lines 101-112)
StepB ==
    /\ pc = "step_b"
    /\ \E r \in {IF ~args.no_ops
                 THEN collect_operations_and_macros(original_graph, s_map)
                 ELSE [nodes |-> EmptyDict, edges |-> EmptyBag,
                       mapping |-> EmptyDict, log |-> {}, made |-> EmptyBag]} :
           /\ o_nodes' = r.nodes
           /\ o_edges' = r.edges
           /\ o_map' = r.mapping
           /\ combined_map_1' = DictUpdate(s_map, r.mapping)
           /\ assignments' = assignments \cup r.log \cup MapLog(r.mapping)
           /\ created' = created (+) r.made
    /\ pc' = "step_c"
    /\ UNCHANGED << args, original_graph, s_nodes, s_edges, s_map,
                    f_nodes, f_edges, combo_map_2, folder_nodes, folder_edges, combo_map_3,
                    extra_nest_edges, final_graph, var_func_to_files,
                    merge_vars, path_vars >>

\* Step C (lines 114-125)
StepC ==
    /\ pc = "step_c"
    /\ \E r \in {IF ~args.no_files
                 THEN collect_files_and_associations(original_graph, combined_map_1,
                                                     NodesById(s_nodes, o_nodes))
                 ELSE [nodes |-> EmptyDict, edges |-> EmptyBag,
                       mapping |-> combined_map_1, log |-> {}, vff |-> EmptyDict,
                       made |-> EmptyBag]} :
           /\ f_nodes' = r.nodes
           /\ f_edges' = r.edges
           /\ combo_map_2' = r.mapping
           /\ var_func_to_files' = r.vff
           /\ assignments' = assignments \cup r.log
           /\ created' = created (+) r.made
    /\ pc' = "step_d"
    /\ UNCHANGED << args, original_graph, s_nodes, s_edges, s_map, o_nodes, o_edges, o_map,
                    combined_map_1, folder_nodes, folder_edges, combo_map_3,
                    extra_nest_edges, final_graph, merge_vars, path_vars >>

\* Step D (lines 127-137)
StepD ==
    /\ pc = "step_d"
    /\ \E r \in {IF ~args.no_folders
                 THEN invert_parent_folder_edges(original_graph, combo_map_2)
                 ELSE [nodes |-> EmptyDict, edges |-> EmptyBag,
                       mapping |-> combo_map_2, log |-> {}, made |-> EmptyBag]} :
           /\ folder_nodes' = r.nodes
           /\ folder_edges' = r.edges
           /\ combo_map_3' = r.mapping
           /\ assignments' = assignments \cup r.log
           /\ created' = created (+) r.made
    /\ pc' = "step_e"
    /\ UNCHANGED << args, original_graph, s_nodes, s_edges, s_map, o_nodes, o_edges, o_map,
                    combined_map_1, f_nodes, f_edges, combo_map_2,
                    extra_nest_edges, final_graph, var_func_to_files,
                    merge_vars, path_vars >>

\* all_nodes / new_nodes_all by id: s_nodes + o_nodes + f_nodes + folder_nodes
AllNodesById(s, o, f, d) == NodesById(NodesById(NodesById(s, o), f), d)

\* a pass's node list after pass 5 has added labels to the node objects: an id of
\* the list holds the relabelled object unless a later list holds the id too
Relabelled(own, later, linked) ==
    [id \in DOMAIN own |-> IF id \in later THEN own[id] ELSE linked[id]]

\* Step E (lines 139-149)
StepE ==
    /\ pc = "step_e"
    /\ IF ~args.no_folders /\ ~args.no_files
       THEN \E r \in {link_source_parentfolder_structures(original_graph, combo_map_3,
                        AllNodesById(s_nodes, o_nodes, f_nodes, folder_nodes))} :
                /\ extra_nest_edges' = r.edges
                /\ s_nodes' = Relabelled(s_nodes,
                        DOMAIN o_nodes \cup DOMAIN f_nodes \cup DOMAIN folder_nodes, r.nodes)
                /\ o_nodes' = Relabelled(o_nodes,
                        DOMAIN f_nodes \cup DOMAIN folder_nodes, r.nodes)
                /\ f_nodes' = Relabelled(f_nodes, DOMAIN folder_nodes, r.nodes)
                /\ folder_nodes' = Relabelled(folder_nodes, {}, r.nodes)
       ELSE /\ extra_nest_edges' = EmptyBag
            /\ UNCHANGED << s_nodes, o_nodes, f_nodes, folder_nodes >>
    /\ pc' = "assemble"
    /\ UNCHANGED << args, original_graph, s_edges, s_map, o_edges, o_map,
                    combined_map_1, f_edges, combo_map_2, folder_edges, combo_map_3,
                    final_graph, assignments, created, var_func_to_files, merge_vars, path_vars >>

\* all_edges = s_edges + o_edges + f_edges + folder_edges + extra_nest_edges
AllEdges == s_edges (+) o_edges (+) f_edges (+) folder_edges (+) extra_nest_edges

\* as Assemble, but final_graph.clean_up() is never called
AssembleNoCleanUp ==
    /\ pc = "assemble"
    /\ final_graph' = [nodes |-> AllNodesById(s_nodes, o_nodes, f_nodes, folder_nodes),
                       edges |-> AllEdges]
    /\ pc' = "done"
    /\ UNCHANGED << args, original_graph, s_nodes, s_edges, s_map, o_nodes, o_edges, o_map,
                    combined_map_1, f_nodes, f_edges, combo_map_2, folder_nodes, folder_edges,
                    combo_map_3, extra_nest_edges, assignments, created, var_func_to_files,
                    merge_vars, path_vars >>

\* build_graph_from_nodes_edges and clean_up (lines 19-32 and 151-156)
Assemble ==
    /\ pc = "assemble"
    /\ final_graph' = clean_up(AllNodesById(s_nodes, o_nodes, f_nodes, folder_nodes),
                               << s_edges, o_edges, f_edges, folder_edges, extra_nest_edges >>)
    /\ pc' = "done"
    /\ UNCHANGED << args, original_graph, s_nodes, s_edges, s_map, o_nodes, o_edges, o_map,
                    combined_map_1, f_nodes, f_edges, combo_map_2, folder_nodes, folder_edges,
                    combo_map_3, extra_nest_edges, assignments, created, var_func_to_files,
                    merge_vars, path_vars >>

Next == StepA \/ StepB \/ StepC \/ StepD \/ StepE \/ Assemble

-----------------------------------------------------------------------------
(* Input graphs.                                                           *)

\* ids of the original nodes, in graph order
NodeIds == << "a", "b", "c", "d" >>

\* the properties the original nodes carry, by position
NodeProps ==
    << [k \in {"name", "kind", "metaSrc"} |->
            CASE k = "name" -> "a/b" [] k = "kind" -> "" [] OTHER -> "extractor"],
       [k \in {"symbol", "x", "kind"} |->
            CASE k = "symbol" -> "sym" [] k = "x" -> "1" [] OTHER -> "method"],
       [k \in {"x", "name"} |-> IF k = "x" THEN "2" ELSE "b\\"],
       EmptyDict >>

SingleLabelSets == {{l} : l \in LabelUniverse}

AllEdgeLabels ==
    << "CppContains", "CppInherits", "CppImplements", "CppCalls", "Source",
       "ParentFolder", "CppUses" >>

\* the node lists of n nodes with label sets from LS
NodeLists(n, LS) ==
    {[i \in 1..n |-> [id |-> NodeIds[i], labels |-> f[i], properties |-> NodeProps[i]]] :
        f \in [1..n -> LS]}

\* all edges among the first n nodes with labels from EL, in a fixed order
EdgeList(n, EL) ==
    [x \in 1..(n * n * Len(EL)) |->
        [source |-> NodeIds[((x - 1) \div (n * Len(EL))) + 1],
         target |-> NodeIds[(((x - 1) \div Len(EL)) % n) + 1],
         label  |-> EL[((x - 1) % Len(EL)) + 1]]]

\* the edge lists of at most m edges (an edge may repeat), in that order
EdgeLists(n, EL, m) ==
    LET all == EdgeList(n, EL)
    IN  {[p \in DOMAIN ix |-> all[ix[p]]] :
            ix \in {s \in UNION {[1..k -> DOMAIN all] : k \in 0..m} :
                        \A p \in 1..(Len(s) - 1) : s[p] <= s[p + 1]}}

AllFlags == [no_ops : BOOLEAN, no_files : BOOLEAN, no_folders : BOOLEAN]

NoFlags == {[no_ops |-> FALSE, no_files |-> FALSE, no_folders |-> FALSE]}

\* nothing computed yet: main before line 97
NothingComputed ==
    /\ s_nodes = EmptyDict /\ s_edges = EmptyBag /\ s_map = EmptyDict
    /\ o_nodes = EmptyDict /\ o_edges = EmptyBag /\ o_map = EmptyDict
    /\ combined_map_1 = EmptyDict
    /\ f_nodes = EmptyDict /\ f_edges = EmptyBag /\ combo_map_2 = EmptyDict
    /\ folder_nodes = EmptyDict /\ folder_edges = EmptyBag /\ combo_map_3 = EmptyDict
    /\ extra_nest_edges = EmptyBag
    /\ final_graph = [nodes |-> EmptyDict, edges |-> EmptyBag]
    /\ assignments = {}
    /\ created = EmptyBag
    /\ var_func_to_files = EmptyDict

NoHelperCall ==
    /\ def_props = EmptyDict /\ decl_props = EmptyDict /\ merged = EmptyDict
    /\ pp_props = EmptyDict /\ pp_old_id = "" /\ pp_result = EmptyDict

\* the state at line 97 of main, for an input graph and flags drawn from the given sets
PipelineInit(nodelists, edgelists, flags) ==
    /\ pc = "step_a"
    /\ args \in flags
    /\ original_graph \in [nodes : nodelists, edges : edgelists]
    /\ NothingComputed
    /\ NoHelperCall

MultiLabelSets ==
    {{"CppDeclaration", "CppFunctionDefinition"}, {"CppDeclaration", "SourceFile"},
     {"SourceFile", "HeaderFile"}, {"CppFunctionDefinition", "CppFunctionDeclaration"}}

\* the whole pipeline on two-node graphs over every label and edge label, every flag
MaxEdges == 1

Init == PipelineInit(NodeLists(2, SingleLabelSets \cup MultiLabelSets), EdgeLists(2, AllEdgeLabels, MaxEdges), AllFlags)

Spec == Init /\ [][Next]_vars

\* passes 1 and 2 on three-node graphs of functions, macros and declarations
OpsLabelSets ==
    {{"CppFunctionDefinition"}, {"CppFunctionDeclaration"}, {"CppMacroDefinition"},
     {"CppDeclaration"}}

OpsEdgeLabels == << "CppImplements", "CppCalls" >>

MaxOpsEdges == 3

InitOps == PipelineInit(NodeLists(3, OpsLabelSets), EdgeLists(3, OpsEdgeLabels, MaxOpsEdges), NoFlags)

NextOps == StepA \/ StepB

SpecOps == InitOps /\ [][NextOps]_vars

\* passes 1 to 3 on four-node graphs: two functions or declarations, two files
FunctionLabelSets ==
    {{"CppFunctionDefinition"}, {"CppFunctionDeclaration"}, {"CppDeclaration"}}

FileLabelSets == {{"SourceFile"}, {"HeaderFile"}}

FilesNodeLists ==
    {nl \in NodeLists(4, FunctionLabelSets \cup FileLabelSets) :
        /\ nl[1].labels \in FunctionLabelSets /\ nl[2].labels \in FunctionLabelSets
        /\ nl[3].labels \in FileLabelSets /\ nl[4].labels \in FileLabelSets}

FilesEdgeLabels == << "CppImplements", "Source" >>

MaxFilesEdges == 3

InitFiles == PipelineInit(FilesNodeLists, EdgeLists(4, FilesEdgeLabels, MaxFilesEdges), NoFlags)

NextFiles == StepA \/ StepB \/ StepC

SpecFiles == InitFiles /\ [][NextFiles]_vars

\* passes 1 and 2 on three-node graphs of declarations, forward declarations,
\* functions and macros joined by containment and inheritance
DeclLabelSets ==
    {{"CppDeclaration"}, {"CppForwardDeclaration"}, {"CppFunctionDefinition"},
     {"CppMacroDefinition"}}

DeclEdgeLabels == << "CppContains", "CppInherits" >>

MaxDeclEdges == 2

InitDecls == PipelineInit(NodeLists(3, DeclLabelSets), EdgeLists(3, DeclEdgeLabels, MaxDeclEdges), NoFlags)

SpecDecls == InitDecls /\ [][NextOps]_vars

\* passes 1 to 3 on three-node graphs of declarations, functions, macros, files and
\* folders joined by Source edges in either direction and by containment
SourceLabelSets ==
    {{"CppDeclaration"}, {"CppFunctionDefinition"}, {"CppMacroDefinition"},
     {"SourceFile"}, {"HeaderFile"}, {"Folder"}}

SourceEdgeLabels == << "Source", "CppContains" >>

MaxSourceEdges == 2

InitSource == PipelineInit(NodeLists(3, SourceLabelSets), EdgeLists(3, SourceEdgeLabels, MaxSourceEdges), NoFlags)

SpecSource == InitSource /\ [][NextFiles]_vars

\* passes 1 and 2 on four functions whose ids hold the "_" that also joins the two
\* ids of a merged Operation
UnderscoreIds == << "a", "a_b", "b_c", "c" >>

UnderscoreId(id) == UnderscoreIds[CHOOSE i \in DOMAIN NodeIds : NodeIds[i] = id]

IdsLabelSets == {{"CppFunctionDefinition"}, {"CppFunctionDeclaration"}}

MaxIdsEdges == 2

IdsNodeLists ==
    {[i \in DOMAIN nl |-> [nl[i] EXCEPT !.id = UnderscoreId(@)]] :
        nl \in NodeLists(4, IdsLabelSets)}

IdsEdgeLists ==
    {[p \in DOMAIN el |-> [el[p] EXCEPT !.source = UnderscoreId(@),
                                        !.target = UnderscoreId(@)]] :
        el \in EdgeLists(4, << "CppImplements" >>, MaxIdsEdges)}

InitIds == PipelineInit(IdsNodeLists, IdsEdgeLists, NoFlags)

SpecIds == InitIds /\ [][NextOps]_vars

-----------------------------------------------------------------------------
(* The two helpers on their own: one call each, on inputs drawn from       *)
(* bounded sets.                                                           *)

\* the dicts with keys among K and values in V
Dicts(K, V) == UNION {[D -> V] : D \in SUBSET K}

NoPipeline ==
    /\ args \in NoFlags
    /\ original_graph = [nodes |-> << >>, edges |-> << >>]
    /\ NothingComputed

MergeKeys == {"symbol", "name", "simpleName", "a", "b"}

MergeValues == {"1", "2"}

InitMerge ==
    /\ pc = "merge"
    /\ def_props \in Dicts(MergeKeys, MergeValues)
    /\ decl_props \in Dicts(MergeKeys, MergeValues)
    /\ merged = EmptyDict
    /\ pp_props = EmptyDict /\ pp_old_id = "" /\ pp_result = EmptyDict
    /\ NoPipeline

\* merged = merge_properties(def_node.properties, dcl_node.properties)
MergeProperties ==
    /\ pc = "merge"
    /\ merged' = merge_properties(def_props, decl_props)
    /\ pc' = "merged"
    /\ UNCHANGED << args, original_graph, s_nodes, s_edges, s_map, o_nodes, o_edges, o_map,
                    combined_map_1, f_nodes, f_edges, combo_map_2, folder_nodes, folder_edges,
                    combo_map_3, extra_nest_edges, final_graph, assignments, created,
                    var_func_to_files, def_props, decl_props, path_vars >>

SpecMerge == InitMerge /\ [][MergeProperties]_vars

PathSymbols == {"", "sym"}

PathOldIds == {"", "n1"}

InitPath ==
    /\ pc = "parse"
    /\ \E names \in SUBSET {"name"}, syms \in SUBSET {"symbol"}, others \in SUBSET {"x"} :
         \E nm \in PathStrings, sy \in PathSymbols :
            pp_props = [k \in names \cup syms \cup others |->
                            CASE k = "name" -> nm [] k = "symbol" -> sy [] OTHER -> "1"]
    /\ pp_old_id \in PathOldIds
    /\ pp_result = EmptyDict
    /\ def_props = EmptyDict /\ decl_props = EmptyDict /\ merged = EmptyDict
    /\ NoPipeline

\* props = parse_path_as_name(old_node.properties, old_id=old_node.id)
ParsePathAsName ==
    /\ pc = "parse"
    /\ pp_result' = parse_path_as_name(pp_props, pp_old_id)
    /\ pc' = "parsed"
    /\ UNCHANGED << args, original_graph, s_nodes, s_edges, s_map, o_nodes, o_edges, o_map,
                    combined_map_1, f_nodes, f_edges, combo_map_2, folder_nodes, folder_edges,
                    combo_map_3, extra_nest_edges, final_graph, assignments, created,
                    var_func_to_files, merge_vars, pp_props, pp_old_id >>

SpecPath == InitPath /\ [][ParsePathAsName]_vars

-----------------------------------------------------------------------------
(* Properties.                                                             *)

FinalEdges == BagToSet(final_graph.edges)

OriginalEdges == {original_graph.edges[i] : i \in DOMAIN original_graph.edges}

OriginalNodes == {original_graph.nodes[i] : i \in DOMAIN original_graph.nodes}

\* C1: after a full run, the target of every hasVariable edge of the final graph
\* carries label Variable and has kind "field".
C1_HasVariableTargetIsField ==
    pc = "done" =>
        \A e \in FinalEdges :
            e.label = "hasVariable" =>
                /\ "Variable" \in final_graph.nodes[e.target].labels
                /\ DictGet(final_graph.nodes[e.target].properties, "kind", None) = "field"

\* C2: after a full run, the source of every contains edge between two nodes that
\* both carry label Structure also carries label Container.
C2_ContainingStructureIsContainer ==
    pc = "done" =>
        \A e \in FinalEdges :
            (/\ e.label = "contains"
             /\ "Structure" \in final_graph.nodes[e.source].labels
             /\ "Structure" \in final_graph.nodes[e.target].labels)
                => "Container" \in final_graph.nodes[e.source].labels

\* C3: no contains edge of the final graph has its source equal to its target.
C3_NoContainsSelfLoop ==
    pc = "done" =>
        \A e \in FinalEdges : e.label = "contains" => e.source # e.target

\* C4: an old id is never given two different new ids: all the writes made to the
\* id mappings so far agree on every old id.
C4_NeverRemapped ==
    \A p \in assignments, q \in assignments : p[1] = q[1] => p[2] = q[2]

ReservedKeys == {"symbol", "name", "simpleName", "qualifiedName", "metaSrc"}

\* C5: after pass 2, every CppImplements edge from a function definition D to a
\* function declaration C has D and C mapped to one and the same Operation node,
\* whose properties are C's overridden by D's.
C5_ImplementsPairIsOneOperation ==
    pc = "step_c" =>
        \A e \in OriginalEdges :
            (/\ e.label = "CppImplements"
             /\ \E n \in OriginalNodes : n.id = e.source /\ "CppFunctionDefinition" \in n.labels
             /\ \E n \in OriginalNodes : n.id = e.target /\ "CppFunctionDeclaration" \in n.labels)
            =>  /\ e.source \in DOMAIN o_map
                /\ e.target \in DOMAIN o_map
                /\ o_map[e.source] = o_map[e.target]
                /\ o_map[e.source] \in DOMAIN o_nodes
                /\ "Operation" \in o_nodes[o_map[e.source]].labels
                /\ LET dp == GraphNode(original_graph, e.source).properties
                       cp == GraphNode(original_graph, e.target).properties
                       op == o_nodes[o_map[e.source]].properties
                   IN  \A k \in ((DOMAIN dp) \cup (DOMAIN cp)) \ (ReservedKeys \cup {"kind"}) :
                          /\ k \in DOMAIN op
                          /\ op[k] = IF k \in DOMAIN dp THEN dp[k] ELSE cp[k]

\* a Source edge joins the file with old id file_old and an old id mapped to new_id
ReferencedBy(new_id, file_old) ==
    \E e \in OriginalEdges :
        /\ e.label = "Source"
        /\ \/ e.target = file_old /\ DictGet(combined_map_1, e.source, None) = new_id
           \/ e.source = file_old /\ DictGet(combined_map_1, e.target, None) = new_id

\* C6: after pass 3, for every new Variable, Operation or Script node that a source
\* file S and a header file H both reference through Source edges, there is an
\* association edge from S's new node to H's new node.
C6_SourceHeaderPairing ==
    pc = "step_d" =>
        \A new_id \in (DOMAIN s_nodes) \cup (DOMAIN o_nodes) :
            ({"Variable", "Operation", "Script"}
                    \cap NodesById(s_nodes, o_nodes)[new_id].labels # {})
            => \A S \in OriginalNodes, H \in OriginalNodes :
                  (/\ "SourceFile" \in S.labels
                   /\ "HeaderFile" \in H.labels
                   /\ ReferencedBy(new_id, S.id)
                   /\ ReferencedBy(new_id, H.id))
                  => \E a \in BagToSet(f_edges) :
                        /\ a.label = "association"
                        /\ a.source = combo_map_2[S.id]
                        /\ a.target = combo_map_2[H.id]

\* C7: after a full run, under every combination of flags, every node of the final
\* graph has metaSrc "renaissance" and a kind that is present and not empty.
C7_MetaSrcAndKind ==
    pc = "done" =>
        \A id \in DOMAIN final_graph.nodes :
            LET props == final_graph.nodes[id].properties
            IN  /\ "metaSrc" \in DOMAIN props
                /\ props["metaSrc"] = "renaissance"
                /\ "kind" \in DOMAIN props
                /\ props["kind"] # ""

\* C8: merge_properties: for every key other than symbol, name, simpleName,
\* qualifiedName and metaSrc, the result has the key iff one of the inputs has it,
\* with the definition's value if the definition has the key and the declaration's
\* otherwise; and the call changes neither input.
C8_MergeProperties ==
    /\ [](pc = "merged" =>
            \A k \in (MergeKeys \cup DOMAIN merged) \ ReservedKeys :
                /\ k \in DOMAIN merged <=> (k \in DOMAIN def_props \/ k \in DOMAIN decl_props)
                /\ k \in DOMAIN def_props => merged[k] = def_props[k]
                /\ (k \in DOMAIN decl_props /\ k \notin DOMAIN def_props)
                        => merged[k] = decl_props[k])
    /\ [][def_props' = def_props /\ decl_props' = decl_props]_vars

\* a merge in which the two inputs disagree on one key and the declaration alone
\* has another
C8_Witness ==
    /\ pc = "merged"
    /\ "a" \in DOMAIN def_props /\ "a" \in DOMAIN decl_props
    /\ def_props["a"] # decl_props["a"]
    /\ "b" \in DOMAIN decl_props /\ "b" \notin DOMAIN def_props
    /\ "b" \in DOMAIN merged

\* the last "/"-delimited segment of the name with every backslash replaced, said
\* without the model's own splitting: seg is a suffix of the replaced name, holds
\* no "/", and is preceded by a "/" or by nothing
IsLastSegment(seg, name) ==
    LET cs   == Chars(name)
        norm == [i \in DOMAIN cs |-> IF cs[i] = "\\" THEN "/" ELSE cs[i]]
        n    == Len(norm) - Len(seg)
    IN  /\ n >= 0
        /\ \A i \in DOMAIN seg : seg[i] = norm[n + i] /\ seg[i] # "/"
        /\ n > 0 => norm[n] = "/"

NormalizedName(name) ==
    Concat([i \in DOMAIN Chars(name) |->
                IF Chars(name)[i] = "\\" THEN "/" ELSE Chars(name)[i]])

InvokeEdgesOf(edges) == {e \in BagToSet(edges) : e.label = "invoke"}

\* C10: after pass 2, the invoke edges are exactly the pairs (m(s), m(t)) of the
\* CppCalls edges s -> t with s and t both mapped by the pass and m(s) # m(t), each
\* pair once.
C10_InvokeEdges ==
    pc = "step_c" =>
        LET qualifying == {c \in OriginalEdges :
                              /\ c.label = "CppCalls"
                              /\ c.source \in DOMAIN o_map
                              /\ c.target \in DOMAIN o_map
                              /\ o_map[c.source] # o_map[c.target]}
            inv == InvokeEdgesOf(o_edges)
        IN  /\ {<< e.source, e.target >> : e \in inv}
                = {<< o_map[c.source], o_map[c.target] >> : c \in qualifying}
            /\ \A e \in inv : CopiesIn(e, o_edges) = 1
            /\ \A e \in inv, d \in inv : (e.source = d.source /\ e.target = d.target) => e = d

\* pass 2 has run on a graph in which a definition calls the declaration it was
\* merged with (no invoke edge for that call) and calls another function (one
\* invoke edge from the merged Operation)
C10_Witness ==
    /\ pc = "step_c"
    /\ \E c \in OriginalEdges :
          /\ c.label = "CppCalls"
          /\ c.source # c.target
          /\ c.source \in DOMAIN o_map /\ c.target \in DOMAIN o_map
          /\ o_map[c.source] = o_map[c.target]
          /\ \E e \in InvokeEdgesOf(o_edges) : e.source = o_map[c.source]

\* C11: after the final cleanup, under every combination of flags, every edge of
\* the final graph joins two nodes of the final graph, and no two edges of the
\* final graph have the same (source, target, label).
C11_NoDanglingNoDuplicate ==
    pc = "done" =>
        \A e \in FinalEdges :
            /\ e.source \in DOMAIN final_graph.nodes
            /\ e.target \in DOMAIN final_graph.nodes
            /\ CopiesIn(e, final_graph.edges) = 1
            /\ \A d \in FinalEdges : Triple(d) = Triple(e) => d = e

\* a finished run in which the passes together produced an edge twice and the
\* final graph holds it
C11_Witness ==
    /\ pc = "done"
    /\ \E e \in BagToSet(AllEdges) :
          /\ CopiesIn(e, AllEdges) >= 2
          /\ e \in FinalEdges

\* old_id is the target of a CppContains edge whose source pass 1 mapped to a
\* node labelled Structure
ContainedByStructure(old_id) ==
    \E e \in OriginalEdges :
        /\ e.label = "CppContains"
        /\ e.target = old_id
        /\ e.source \in DOMAIN s_map
        /\ "Structure" \in s_nodes[s_map[e.source]].labels

\* C12: after pass 2, an Operation has kind "method" if some original function id
\* mapped to it is contained by a Structure of pass 1 and kind "function"
\* otherwise, whatever kind the original nodes carried; a Script has kind "macro".
C12_OperationKind ==
    pc = "step_c" =>
        \A id \in DOMAIN o_nodes :
            LET kind == DictGet(o_nodes[id].properties, "kind", None)
            IN  /\ "Operation" \in o_nodes[id].labels =>
                      kind = IF \E old_id \in DOMAIN o_map :
                                    o_map[old_id] = id /\ ContainedByStructure(old_id)
                             THEN "method" ELSE "function"
                /\ "Script" \in o_nodes[id].labels => kind = "macro"

\* C13: every hasScript edge of pass 2 starts at a node that pass 1 labelled
\* Structure.
C13_HasScriptFromStructure ==
    pc = "step_c" =>
        \A e \in BagToSet(o_edges) :
            e.label = "hasScript" =>
                /\ e.source \in DOMAIN s_nodes
                /\ "Structure" \in s_nodes[e.source].labels

\* the node has an outgoing CppContains edge or is an end of a CppInherits edge
IsStructural(id) ==
    \E e \in OriginalEdges :
        \/ e.label = "CppContains" /\ e.source = id
        \/ e.label = "CppInherits" /\ (e.source = id \/ e.target = id)

\* C14: after pass 1, every declaration or forward declaration is mapped to a
\* Structure "class"+id of kind "class/struct/template" if it has an outgoing
\* CppContains edge or is an end of a CppInherits edge, and to a Variable
\* "variable"+id otherwise; and every CppInherits edge between two mapped
\* declarations has its specializes edge.
C14_Classification ==
    pc = "step_b" =>
        /\ \A n \in OriginalNodes :
              {"CppDeclaration", "CppForwardDeclaration"} \cap n.labels # {} =>
                  /\ n.id \in DOMAIN s_map
                  /\ IF IsStructural(n.id)
                     THEN /\ s_map[n.id] = "class" \o n.id
                          /\ "Structure" \in s_nodes[s_map[n.id]].labels
                          /\ s_nodes[s_map[n.id]].properties["kind"] = "class/struct/template"
                     ELSE /\ s_map[n.id] = "variable" \o n.id
                          /\ "Variable" \in s_nodes[s_map[n.id]].labels
        /\ \A e \in OriginalEdges :
              (e.label = "CppInherits" /\ e.source \in DOMAIN s_map /\ e.target \in DOMAIN s_map)
                  => \E sp \in BagToSet(s_edges) :
                        /\ sp.label = "specializes"
                        /\ sp.source = s_map[e.source]
                        /\ sp.target = s_map[e.target]

\* the new id of an endpoint after pass 3, None if it has none
NewIdAfterFiles(old_id) == DictGet(combo_map_2, old_id, None)

\* the Source edge has exactly one endpoint mapped to a file node, and its other
\* endpoint is mapped
OneFileEnd(e) ==
    /\ e.label = "Source"
    /\ NewIdAfterFiles(e.source) # None
    /\ NewIdAfterFiles(e.target) # None
    /\ (NewIdAfterFiles(e.source) \in DOMAIN f_nodes)
            # (NewIdAfterFiles(e.target) \in DOMAIN f_nodes)

\* the edge the claim gives a Source edge with one file end: it depends on the two
\* ends as a pair, not on which is the source
EdgeForSource(e) ==
    LET ns     == NewIdAfterFiles(e.source)
        nt     == NewIdAfterFiles(e.target)
        file   == IF ns \in DOMAIN f_nodes THEN ns ELSE nt
        entity == IF ns \in DOMAIN f_nodes THEN nt ELSE ns
        labels == NodesById(s_nodes, o_nodes)[entity].labels
    IN  IF "Variable" \in labels THEN Edge(file, entity, "hasVariable", EmptyDict)
        ELSE IF {"Operation", "Script"} \cap labels # {}
             THEN Edge(file, entity, "hasScript", EmptyDict)
        ELSE Edge(entity, file, "association", EmptyDict)

\* C15: after pass 3, the hasVariable, hasScript and entity-to-file association
\* edges are exactly the edges that the Source edges with one file end and a
\* mapped other end give by the label of the other end (Variable: hasVariable from
\* the file; Operation or Script: hasScript from the file; Structure: association
\* to the file), one per such Source edge whatever its direction; no other Source
\* edge gives an edge.
C15_SourceEdgesByLabel ==
    pc = "step_d" =>
        LET derived  == {x \in BagToSet(f_edges) :
                            \/ x.label \in {"hasVariable", "hasScript"}
                            \/ x.label = "association" /\ x.source \notin DOMAIN f_nodes}
            givers(x) == {i \in DOMAIN original_graph.edges :
                            /\ OneFileEnd(original_graph.edges[i])
                            /\ EdgeForSource(original_graph.edges[i]) = x}
            expected == {EdgeForSource(e) : e \in {d \in OriginalEdges : OneFileEnd(d)}}
        IN  /\ derived = expected
            /\ \A x \in expected : CopiesIn(x, f_edges) = Cardinality(givers(x))

\* pass 3 has run on a graph with two Source edges between an entity and a file,
\* one in each direction, and both gave the same edge
C15_Witness ==
    /\ pc = "step_d"
    /\ \E e1 \in OriginalEdges, e2 \in OriginalEdges :
          /\ OneFileEnd(e1) /\ OneFileEnd(e2)
          /\ e1.source = e2.target /\ e1.target = e2.source
          /\ CopiesIn(EdgeForSource(e1), f_edges) = 2

\* the contains edge the claim gives a ParentFolder edge: from the new id of its
\* target (the folder) to the new id of its source (the child)
EdgeForParentFolder(e) ==
    Edge(combo_map_3[e.target], combo_map_3[e.source], "contains", EmptyDict)

\* C16: after pass 4, the edges of the pass are exactly one contains(folder',
\* child') per ParentFolder edge child -> folder, with folder' and child' the ids
\* of the two ends in the returned mapping; an end that passes 1 to 3 had mapped
\* keeps its id, and the nodes of the pass are those of the ends it mapped itself.
C16_ParentFolderInverted ==
    (pc = "step_e" /\ ~args.no_folders) =>
        LET pf == {i \in DOMAIN original_graph.edges :
                        original_graph.edges[i].label = "ParentFolder"}
            givers(x) == {i \in pf : EdgeForParentFolder(original_graph.edges[i]) = x}
        IN  /\ \A i \in pf : /\ original_graph.edges[i].source \in DOMAIN combo_map_3
                               /\ original_graph.edges[i].target \in DOMAIN combo_map_3
            /\ BagToSet(folder_edges)
                    = {EdgeForParentFolder(original_graph.edges[i]) : i \in pf}
            /\ \A x \in BagToSet(folder_edges) :
                    CopiesIn(x, folder_edges) = Cardinality(givers(x))
            /\ \A k \in DOMAIN combo_map_2 :
                    k \in DOMAIN combo_map_3 /\ combo_map_3[k] = combo_map_2[k]
            /\ DOMAIN folder_nodes
                    = {combo_map_3[k] : k \in (DOMAIN combo_map_3) \ (DOMAIN combo_map_2)}

\* pass 4 has run on a ParentFolder edge from a node that pass 1, 2 or 3 had mapped
\* to a node that was not mapped, and the contains edge runs the other way
C16_Witness ==
    /\ pc = "step_e"
    /\ ~args.no_folders
    /\ \E e \in OriginalEdges :
          /\ e.label = "ParentFolder"
          /\ e.source \in DOMAIN combo_map_2
          /\ e.target \notin DOMAIN combo_map_2
          /\ combo_map_3[e.target] \in DOMAIN folder_nodes
          /\ EdgeForParentFolder(e) \in BagToSet(folder_edges)
          /\ EdgeForParentFolder(e).source # EdgeForParentFolder(e).target

\* a ParentFolder edge of the original graph starts or ends at the node
InParentFolderEdge(id) ==
    \E e \in OriginalEdges : e.label = "ParentFolder" /\ (e.source = id \/ e.target = id)

\* C17: after pass 4, every node with label Folder that passes 1 to 3 left unmapped
\* is mapped to "folder" + id, a Container of kind "folder", whether or not a
\* ParentFolder edge starts or ends at it; and every other unmapped node at an end
\* of a ParentFolder edge is mapped to a Structure whose kind is the humanized form
\* of one of its labels.
C17_FoldersBecomeContainers ==
    (pc = "step_e" /\ ~args.no_folders) =>
        \A n \in OriginalNodes :
            LET id == n.id
            IN  id \notin DOMAIN combo_map_2 =>
                  /\ "Folder" \in n.labels =>
                        /\ id \in DOMAIN combo_map_3
                        /\ combo_map_3[id] = "folder" \o id
                        /\ combo_map_3[id] \in DOMAIN folder_nodes
                        /\ folder_nodes[combo_map_3[id]].labels = {"Container"}
                        /\ folder_nodes[combo_map_3[id]].properties["kind"] = "folder"
                  /\ ("Folder" \notin n.labels /\ InParentFolderEdge(id)) =>
                        /\ id \in DOMAIN combo_map_3
                        /\ combo_map_3[id] \in DOMAIN folder_nodes
                        /\ folder_nodes[combo_map_3[id]].labels = {"Structure"}
                        /\ folder_nodes[combo_map_3[id]].properties["kind"]
                                \in {normalize_label_camelcase(l) : l \in n.labels}

\* the part of C17 about nodes at an end of a ParentFolder edge
C17_EndsOfParentFolder ==
    (pc = "step_e" /\ ~args.no_folders) =>
        \A n \in OriginalNodes :
            LET id == n.id
            IN  (id \notin DOMAIN combo_map_2 /\ InParentFolderEdge(id)) =>
                  /\ id \in DOMAIN combo_map_3
                  /\ combo_map_3[id] \in DOMAIN folder_nodes
                  /\ IF "Folder" \in n.labels
                     THEN /\ combo_map_3[id] = "folder" \o id
                          /\ folder_nodes[combo_map_3[id]].labels = {"Container"}
                          /\ folder_nodes[combo_map_3[id]].properties["kind"] = "folder"
                     ELSE /\ folder_nodes[combo_map_3[id]].labels = {"Structure"}
                          /\ folder_nodes[combo_map_3[id]].properties["kind"]
                                \in {normalize_label_camelcase(l) : l \in n.labels}

\* C18: the ids of the nodes the passes construct are collision-free: no id is given
\* to two nodes constructed during a run, on graphs whose own ids are unique, ids
\* with "_" in them included.
C18_NewIdsCollisionFree ==
    \A id \in BagToSet(created) : CopiesIn(id, created) = 1

\* the original node of the id carries a file label
IsFileNode(id) ==
    \E n \in OriginalNodes :
        n.id = id /\ n.labels \cap {"SourceFile", "HeaderFile", "OtherFile"} # {}

\* C19: no step of the pipeline changes the original graph; pass 3 and pass 4 leave
\* the mapping they are given unchanged, and the mapping each returns agrees with
\* the one it was given on every key of it whose original node is not a file.
C19_Frame ==
    [][/\ original_graph' = original_graph
       /\ (pc = "step_c" /\ pc' = "step_d") =>
              /\ combined_map_1' = combined_map_1
              /\ \A k \in DOMAIN combined_map_1 :
                    ~IsFileNode(k) => /\ k \in DOMAIN combo_map_2'
                                      /\ combo_map_2'[k] = combined_map_1[k]
       /\ (pc = "step_d" /\ pc' = "step_e") =>
              /\ combo_map_2' = combo_map_2
              /\ \A k \in DOMAIN combo_map_2 :
                    ~IsFileNode(k) => /\ k \in DOMAIN combo_map_3'
                                      /\ combo_map_3'[k] = combo_map_2[k]]_vars

\* passes 3 and 4 have run; pass 3 gave a new id to a key that is a file, and pass 4
\* met, at an end of a ParentFolder edge, a key that is not a file and was mapped
C19_Witness ==
    /\ pc = "step_e"
    /\ ~args.no_files /\ ~args.no_folders
    /\ \E k \in DOMAIN combined_map_1 :
          IsFileNode(k) /\ combo_map_2[k] # combined_map_1[k]
    /\ \E k \in DOMAIN combined_map_1 :
          /\ ~IsFileNode(k)
          /\ InParentFolderEdge(k)
          /\ combo_map_3[k] = combined_map_1[k]
    /\ folder_edges # EmptyBag

====
